---- MODULE Spec2Model ----
(***************************************************************************)
(* A model of the routing table of jwilner/rte: New builds a compressed    *)
(* trie from a route list (insert, checkConflict), and Table.ServeHTTP and *)
(* Table.Vars walk it (acceptMethods, matchPath).                          *)
(*                                                                         *)
(* Strings are sequences of one-character strings.  Go indexes from 0 and  *)
(* TLA+ from 1: pathIdx, labelIdx, lblIdx and varIdx keep their Go values  *)
(* (the number of bytes or captures already consumed), so the Go           *)
(* expression path[pathIdx] is written path[pathIdx + 1].  A method bit    *)
(* mask (uint) is the set of its bit positions: | is \cup, & is \cap and   *)
(* 1 << i is {i}.  A *node is an index into the arena `nodes`; nil is 0.   *)
(***************************************************************************)
EXTENDS Integers, Sequences, FiniteSets, TLC

VARIABLES routes, idx, nodes, methods, methodMask, ret, err, call, procs, helper

vars == <<routes, idx, nodes, methods, methodMask, ret, err, call, procs, helper>>

---------------------------------------------------------------------------
(* Bounds of the model                                                     *)

MaxRoutes == 3

MaxReqLen == 4

MaxCheckRoutes == 2

MaxParams == 2

MaxProcs == 2

MaxMsgRoutes == 5

MaxHelperRoutes == 3

MaxMws == 2

---------------------------------------------------------------------------
(* Program constants                                                       *)

MethodAny == "~"

maxVars == 8

ErrTypeMethodEmpty == 1
ErrTypeNilHandler == 2
ErrTypePathEmpty == 3
ErrTypeNoInitialSlash == 4
ErrTypeInvalidSegment == 5
ErrTypeOutOfRange == 6
ErrTypeDuplicateHandler == 7
ErrTypeConversionFailure == 8
ErrTypeParamCountMismatch == 9
ErrTypeConflictingRoutes == 10

Nil == 0

Root == 1

---------------------------------------------------------------------------
(* Strings                                                                 *)

\* s[from:to] of Go, from and to being Go (0-based, half-open) indices
Slice(s, from, to) == SubSeq(s, from + 1, to)

\* strings.Contains(s, c) for a one-byte c
Contains(s, c) == \E i \in 1..Len(s) : s[i] = c

\* a pattern `[^/:]:`, which lets a ':' follow a ':'
regexpInvalidVarAfterColon(s) ==
    \E i \in 2..Len(s) : s[i] = ":" /\ s[i - 1] \notin {"/", ":"}

\* regexpInvalidVar `[^/]:` matches somewhere in s
regexpInvalidVar(s) == \E i \in 2..Len(s) : s[i] = ":" /\ s[i - 1] # "/"

\* regexpNormalize.ReplaceAllString(s, "*"): every leftmost-longest match of
\* `:[^/]*` becomes "*"
RECURSIVE skipName(_)
skipName(s) == IF s # <<>> /\ Head(s) # "/" THEN skipName(Tail(s)) ELSE s

RECURSIVE regexpNormalize(_)
regexpNormalize(s) ==
    IF s = <<>> THEN <<>>
    ELSE IF Head(s) = ":"
         THEN <<"*">> \o regexpNormalize(skipName(Tail(s)))
         ELSE <<Head(s)>> \o regexpNormalize(Tail(s))

\* the loop of New that counts the ':' of the path
RECURSIVE numPathParams(_)
numPathParams(s) ==
    IF s = <<>> THEN 0
    ELSE (IF Head(s) = ":" THEN 1 ELSE 0) + numPathParams(Tail(s))

---------------------------------------------------------------------------
(* Nodes                                                                   *)

newNode(label, methodFlags) ==
    [label |-> label, methods |-> methodFlags, children |-> <<>>, hndlrs |-> <<>>]

\* n.child(b): the first child whose label starts with b, or nil
child(ns, n, b) ==
    LET cs == ns[n].children
        hits == {i \in 1..Len(cs) : ns[cs[i]].label[1] = b}
    IN IF hits = {} THEN Nil
       ELSE cs[CHOOSE i \in hits : \A j \in hits : i <= j]

\* addChild that appends n2 whatever the children already there
addChildAppend(ns, n, n2) ==
    [ns EXCEPT ![n].children = Append(ns[n].children, n2)]

\* n.addChild(n2): n2 replaces the first child with its first byte, or is appended
addChild(ns, n, n2) ==
    LET cs == ns[n].children
        hits == {i \in 1..Len(cs) : ns[cs[i]].label[1] = ns[n2].label[1]}
    IN IF hits # {}
       THEN [ns EXCEPT ![n].children[CHOOSE i \in hits : \A j \in hits : i <= j] = n2]
       ELSE [ns EXCEPT ![n].children = Append(cs, n2)]

\* n.handler(m): the first handler registered for m, or nil
handler(ns, n, m) ==
    LET hs == ns[n].hndlrs
        hits == {i \in 1..Len(hs) : hs[i].Method = m}
    IN IF hits = {} THEN Nil
       ELSE hs[CHOOSE i \in hits : \A j \in hits : i <= j].Handler

setHandler(ns, n, m, h) ==
    [ns EXCEPT ![n].hndlrs = Append(@, [Method |-> m, Handler |-> h])]

---------------------------------------------------------------------------
(* checkConflict, reduced to its verdict: nil (0) or ErrTypeConflictingRoutes *)

\* checkConflict looking at the first child alone
checkConflictFirstChild(ns, n) ==
    LET wildChild == child(ns, n, "*")
        cs == ns[n].children
    IN IF Len(cs) < 2 \/ wildChild = Nil THEN Nil
       ELSE IF /\ cs[1] # wildChild
               /\ ns[wildChild].methods \cap ns[cs[1]].methods # {}
            THEN ErrTypeConflictingRoutes
            ELSE Nil

checkConflict(ns, n) ==
    LET wildChild == child(ns, n, "*")
        cs == ns[n].children
    IN IF Len(cs) < 2 \/ wildChild = Nil THEN Nil
       ELSE IF \E i \in 1..Len(cs) :
                   /\ cs[i] # wildChild
                   /\ ns[wildChild].methods \cap ns[cs[i]].methods # {}
            THEN ErrTypeConflictingRoutes
            ELSE Nil

\* extract(n): the routes below n, each as the labels from n down (joined)
\* and the method: the children in order, then the handlers of n
RECURSIVE extract(_, _)
RECURSIVE extractChildren(_, _, _)
extractChildren(ns, n, i) ==
    IF i > Len(ns[n].children) THEN <<>>
    ELSE LET c == ns[n].children[i]
             sub == extract(ns, c)
         IN [k \in 1..Len(sub) |-> [Path |-> ns[c].label \o sub[k].Path, Method |-> sub[k].Method]]
            \o extractChildren(ns, n, i + 1)

extract(ns, n) ==
    extractChildren(ns, n, 1)
    \o [k \in 1..Len(ns[n].hndlrs) |-> [Path |-> <<>>, Method |-> ns[n].hndlrs[k].Method]]

\* the first child of n, other than the wildcard child, whose mask meets the
\* mask of the wildcard child, or nil
overlap(ns, n) ==
    LET wildChild == child(ns, n, "*")
        cs == ns[n].children
        hits == {i \in 1..Len(cs) :
                    cs[i] # wildChild /\ ns[wildChild].methods \cap ns[cs[i]].methods # {}}
    IN IF hits = {} THEN Nil ELSE cs[CHOOSE i \in hits : \A j \in hits : i <= j]

\* wildPrefix[method] and staticPrefix[method]: the paths below node c, from
\* the label of c on, that are registered for method
RECURSIVE pathsOf(_, _)
pathsOf(ex, method) ==
    IF ex = <<>> THEN <<>>
    ELSE (IF Head(ex).Method = method THEN <<Head(ex).Path>> ELSE <<>>) \o pathsOf(Tail(ex), method)

prefixMap(ns, c, method) ==
    LET ps == pathsOf(extract(ns, c), method)
    IN [k \in 1..Len(ps) |-> ns[c].label \o ps[k]]

\* the conflicts appended for one method: the wildcard paths, then the static
conflictsOf(ns, prefix, n, method) ==
    LET both == prefixMap(ns, child(ns, n, "*"), method) \o prefixMap(ns, overlap(ns, n), method)
    IN [k \in 1..Len(both) |-> <<method, prefix \o both[k]>>]

RECURSIVE conflictsInOrder(_, _, _, _)
conflictsInOrder(ns, prefix, n, order) ==
    IF order = <<>> THEN <<>>
    ELSE conflictsOf(ns, prefix, n, Head(order)) \o conflictsInOrder(ns, prefix, n, Tail(order))

\* the keys of staticPrefix that wildPrefix holds too
sharedMethods(ns, n) ==
    {m \in {e.Method : e \in {extract(ns, overlap(ns, n))[k] : k \in 1..Len(extract(ns, overlap(ns, n)))}} :
        prefixMap(ns, child(ns, n, "*"), m) # <<>>}

\* the orders in which `for method := range staticPrefix` may yield the keys:
\* Go leaves the iteration order of a map unspecified
rangeOrders(S) ==
    {o \in [1..Cardinality(S) -> S] : \A i, j \in 1..Cardinality(S) : o[i] = o[j] => i = j}

\* the lists of conflicts checkConflict may put in its message
conflictMsgs(ns, prefix, n) ==
    {conflictsInOrder(ns, prefix, n, o) : o \in rangeOrders(sharedMethods(ns, n))}

---------------------------------------------------------------------------
(* insert                                                                  *)

\* the inner loop of insert: labelIdx where label and path diverge or one ends
RECURSIVE diverge(_, _, _, _)
diverge(path, pathIdx, label, labelIdx) ==
    IF /\ pathIdx < Len(path)
       /\ labelIdx < Len(label)
       /\ path[pathIdx + 1] = label[labelIdx + 1]
    THEN diverge(path, pathIdx + 1, label, labelIdx + 1)
    ELSE labelIdx

\* path is a prefix of the child's label: split the label and insert
splitPrefix(ns, node, ch, labelIdx, methodFlag, method, h) ==
    LET newChild == Len(ns) + 1
        ns1 == Append(ns, newNode(Slice(ns[ch].label, 0, labelIdx),
                                  methodFlag \cup ns[ch].methods))
        ns2 == setHandler(ns1, newChild, method, h)
        ns3 == addChild(ns2, node, newChild)
        ns4 == [ns3 EXCEPT ![ch].label = Slice(@, labelIdx, Len(@))]
    IN [nodes |-> addChild(ns4, newChild, ch), err |-> Nil, at |-> Nil, prefix |-> <<>>]

\* the split in the middle of a label, the old child never added to the branch
splitBranchDropsChild(ns, node, ch, pathIdx, labelIdx, methodFlag, method, path, h) ==
    LET branch == Len(ns) + 1
        newN == Len(ns) + 2
        ns1 == Append(ns, newNode(Slice(ns[ch].label, 0, labelIdx),
                                  ns[ch].methods \cup methodFlag))
        ns2 == addChild(ns1, node, branch)
        ns3 == Append(ns2, newNode(Slice(path, pathIdx, Len(path)), methodFlag))
        ns4 == setHandler(ns3, newN, method, h)
        ns5 == [ns4 EXCEPT ![ch].label = Slice(@, labelIdx, Len(@))]
        ns6 == addChild(ns5, branch, newN)
    IN [nodes |-> ns6, err |-> checkConflict(ns6, branch),
        at |-> branch, prefix |-> Slice(path, 0, pathIdx)]

\* the split in the middle of a label, the branch marked with the new
\* method alone
splitBranchOwnMask(ns, node, ch, pathIdx, labelIdx, methodFlag, method, path, h) ==
    LET branch == Len(ns) + 1
        newN == Len(ns) + 2
        ns1 == Append(ns, newNode(Slice(ns[ch].label, 0, labelIdx), methodFlag))
        ns2 == addChild(ns1, node, branch)
        ns3 == Append(ns2, newNode(Slice(path, pathIdx, Len(path)), methodFlag))
        ns4 == setHandler(ns3, newN, method, h)
        ns5 == [ns4 EXCEPT ![ch].label = Slice(@, labelIdx, Len(@))]
        ns6 == addChild(ns5, branch, newN)
        ns7 == addChild(ns6, branch, ch)
    IN [nodes |-> ns7, err |-> checkConflict(ns7, branch),
        at |-> branch, prefix |-> Slice(path, 0, pathIdx)]

\* path differs from the label in the middle of the label: split
splitBranch(ns, node, ch, pathIdx, labelIdx, methodFlag, method, path, h) ==
    LET branch == Len(ns) + 1
        newN == Len(ns) + 2
        ns1 == Append(ns, newNode(Slice(ns[ch].label, 0, labelIdx),
                                  ns[ch].methods \cup methodFlag))
        ns2 == addChild(ns1, node, branch)
        ns3 == Append(ns2, newNode(Slice(path, pathIdx, Len(path)), methodFlag))
        ns4 == setHandler(ns3, newN, method, h)
        ns5 == [ns4 EXCEPT ![ch].label = Slice(@, labelIdx, Len(@))]
        ns6 == addChild(ns5, branch, newN)
        ns7 == addChild(ns6, branch, ch)
    IN [nodes |-> ns7, err |-> checkConflict(ns7, branch),
        at |-> branch, prefix |-> Slice(path, 0, pathIdx)]

\* the code after the loop of insert, without its look for a handler already
\* registered
insertTailNoDuplicateCheck(ns, node, pathIdx, methodFlag, method, path, h) ==
    IF pathIdx = Len(path)
    THEN [nodes |-> setHandler(ns, node, method, h), err |-> Nil, at |-> Nil, prefix |-> <<>>]
    ELSE LET c == Len(ns) + 1
             ns1 == Append(ns, newNode(Slice(path, pathIdx, Len(path)), methodFlag))
             ns2 == setHandler(ns1, c, method, h)
             ns3 == addChild(ns2, node, c)
         IN [nodes |-> ns3, err |-> checkConflict(ns3, node),
             at |-> node, prefix |-> Slice(path, 0, pathIdx)]

\* the code after the loop of insert
insertTail(ns, node, pathIdx, methodFlag, method, path, h) ==
    IF pathIdx = Len(path)
    THEN IF handler(ns, node, method) # Nil
         THEN [nodes |-> ns, err |-> ErrTypeDuplicateHandler, at |-> Nil, prefix |-> <<>>]
         ELSE [nodes |-> setHandler(ns, node, method, h), err |-> Nil, at |-> Nil, prefix |-> <<>>]
    ELSE LET c == Len(ns) + 1
             ns1 == Append(ns, newNode(Slice(path, pathIdx, Len(path)), methodFlag))
             ns2 == setHandler(ns1, c, method, h)
             ns3 == addChild(ns2, node, c)
         IN [nodes |-> ns3, err |-> checkConflict(ns3, node),
             at |-> node, prefix |-> Slice(path, 0, pathIdx)]

\* the loop `for child != nil` of insert
RECURSIVE insertLoop(_, _, _, _, _, _, _, _)
insertLoop(ns, node, ch, pathIdx, methodFlag, method, path, h) ==
    IF ch = Nil THEN insertTail(ns, node, pathIdx, methodFlag, method, path, h)
    ELSE LET labelIdx == diverge(path, pathIdx, ns[ch].label, 0)
             pIdx == pathIdx + labelIdx
         IN IF labelIdx = Len(ns[ch].label)
            THEN LET ns1 == [ns EXCEPT ![ch].methods = @ \cup methodFlag]
                 IN IF pIdx = Len(path)
                    THEN insertTail(ns1, ch, pIdx, methodFlag, method, path, h)
                    ELSE insertLoop(ns1, ch, child(ns1, ch, path[pIdx + 1]), pIdx,
                                    methodFlag, method, path, h)
            ELSE IF pIdx = Len(path)
                 THEN splitPrefix(ns, node, ch, labelIdx, methodFlag, method, h)
                 ELSE splitBranch(ns, node, ch, pIdx, labelIdx, methodFlag, method, path, h)

insert(ns, node, methodFlag, method, path, h) ==
    LET ns1 == [ns EXCEPT ![node].methods = @ \cup methodFlag]
    IN insertLoop(ns1, node, child(ns1, node, path[1]), 0, methodFlag, method, path, h)

---------------------------------------------------------------------------
(* Handlers.  A route's Handler is nil or a Go value, described by whether *)
(* its signature is one funcs.Convert supports and by its number of path   *)
(* parameters.  The funcs.Handler stored in the trie for route i of the    *)
(* list is identified by i + 1.                                            *)

NilHandler == [sig |-> "nil", params |-> 0]

\* the signatures with path parameters of type string ("func") and with one
\* base-16 integer parameter ("funcH1") are supported
Convert(hv) == [numHandlerParams |-> hv.params, ok |-> hv.sig \in {"func", "funcH1"}]

\* strconv.ParseInt(s, 16, 64) returns no error: hex digits after an
\* optional sign, at most 15 of them (more may overflow)
HexDigits ==
    {"0", "1", "2", "3", "4", "5", "6", "7", "8", "9",
     "a", "b", "c", "d", "e", "f", "A", "B", "C", "D", "E", "F"}

ParseIntOk(s) ==
    LET digits == IF s # <<>> /\ Head(s) \in {"+", "-"} THEN Tail(s) ELSE s
    IN /\ digits # <<>> /\ Len(digits) <= 15
       /\ \A i \in 1..Len(digits) : digits[i] \in HexDigits

\* the http.HandlerFunc that Bind returns, run on the captured segments: a
\* funcH1 converts segs[0] and panics on the error of strconv.ParseInt, and
\* the user's function is called otherwise
bind(hv, variables) ==
    IF hv.sig = "funcH1" /\ ~ParseIntOk(variables[1])
    THEN [called |-> FALSE, status |-> 0, fault |-> TRUE]
    ELSE [called |-> TRUE, status |-> 200, fault |-> FALSE]

\* Table.Default, http.NotFoundHandler()
notFound == [called |-> FALSE, status |-> 404, fault |-> FALSE]

---------------------------------------------------------------------------
(* New                                                                     *)

\* the checks New makes on a route, with a ceiling one wildcard too low
checkRouteCeilingBelow(r) ==
    IF r.Method = "" THEN ErrTypeMethodEmpty
    ELSE IF r.Handler = NilHandler THEN ErrTypeNilHandler
    ELSE IF r.Path = <<>> THEN ErrTypePathEmpty
    ELSE IF r.Path[1] # "/" THEN ErrTypeNoInitialSlash
    ELSE IF Contains(r.Path, "*") \/ regexpInvalidVar(r.Path) THEN ErrTypeInvalidSegment
    ELSE IF numPathParams(r.Path) >= maxVars THEN ErrTypeOutOfRange
    ELSE Nil

\* the checks New makes on the method, the handler value and the path of r:
\* the error type, or nil
checkRoute(r) ==
    IF r.Method = "" THEN ErrTypeMethodEmpty
    ELSE IF r.Handler = NilHandler THEN ErrTypeNilHandler
    ELSE IF r.Path = <<>> THEN ErrTypePathEmpty
    ELSE IF r.Path[1] # "/" THEN ErrTypeNoInitialSlash
    ELSE IF Contains(r.Path, "*") \/ regexpInvalidVar(r.Path) THEN ErrTypeInvalidSegment
    ELSE IF numPathParams(r.Path) > maxVars THEN ErrTypeOutOfRange
    ELSE Nil

\* the conversion of the handler and the check of its parameter count, as it
\* was when a MethodAny handler alone could drop parameters
checkHandlerAnyDrops(r) ==
    IF ~Convert(r.Handler).ok THEN ErrTypeConversionFailure
    ELSE IF /\ numPathParams(r.Path) # Convert(r.Handler).numHandlerParams
            /\ (r.Method # MethodAny
                  \/ Convert(r.Handler).numHandlerParams > numPathParams(r.Path))
         THEN ErrTypeParamCountMismatch
    ELSE Nil

\* the check of the parameter count without its exception for zero
checkHandlerExact(r) ==
    IF ~Convert(r.Handler).ok THEN ErrTypeConversionFailure
    ELSE IF numPathParams(r.Path) # Convert(r.Handler).numHandlerParams
         THEN ErrTypeParamCountMismatch
    ELSE Nil

\* the conversion of the handler and the check of its parameter count
checkHandler(r) ==
    IF ~Convert(r.Handler).ok THEN ErrTypeConversionFailure
    ELSE IF /\ Convert(r.Handler).numHandlerParams # 0
            /\ numPathParams(r.Path) # Convert(r.Handler).numHandlerParams
         THEN ErrTypeParamCountMismatch
    ELSE Nil

\* the checks New makes on route r before it touches the table
routeErr(r) == IF checkRoute(r) # Nil THEN checkRoute(r) ELSE checkHandler(r)

\* t.methods after route r: a method is appended when it is first seen
seeMethod(ms, m) ==
    IF \E i \in 1..Len(ms) : ms[i] = m THEN ms ELSE Append(ms, m)

\* the loop that looks the method's bit up in t.methods
methodFlagOf(ms, m) ==
    LET hits == {i \in 1..Len(ms) : ms[i] = m}
    IN IF hits = {} THEN {} ELSE {(CHOOSE i \in hits : \A j \in hits : j <= i) - 1}

\* the Msg of a TableError: its text and, for conflicting routes, the
\* conflicts joined to it
Msg(text, conflicts) == [text |-> text, conflicts |-> conflicts]

\* the text of the errors New finds in a route alone
msgOf(type) ==
    CASE type = ErrTypeMethodEmpty -> "method cannot be empty"
      [] type = ErrTypeNilHandler -> "handler cannot be nil"
      [] type = ErrTypePathEmpty -> "path cannot be empty"
      [] type = ErrTypeNoInitialSlash -> "no initial slash"
      [] type = ErrTypeInvalidSegment -> "invalid segment"
      [] type = ErrTypeOutOfRange -> "path has more than 8 parameters"
      [] type = ErrTypeConversionFailure -> "handler has an unsupported signature"
      [] type = ErrTypeParamCountMismatch -> "path and handler have different numbers of parameters"
      [] type = ErrTypeDuplicateHandler -> "duplicate handler"
      [] OTHER -> "conflicting routes: "

\* a TableError whose Idx was never set
TableErrorNoIdx(type, i, r, msg) == [Type |-> type, Idx |-> 0, Route |-> r, Msg |-> msg]

TableError(type, i, r, msg) == [Type |-> type, Idx |-> i, Route |-> r, Msg |-> msg]

NoError == [Type |-> Nil, Idx |-> 0, Route |-> [Method |-> "", Path |-> <<>>, Handler |-> NilHandler],
            Msg |-> Msg("", <<>>)]

NoCall == [op |-> "none", Method |-> "", Path |-> <<>>, handler |-> Nil,
           variables |-> <<>>, n |-> 0, found |-> FALSE, panic |-> FALSE,
           served |-> notFound]

\* the errors the iteration of the loop of New on route r, the table being
\* (ns, ms), may return: none when the route is accepted
newErrors(ns, ms, i, r) ==
    LET e == routeErr(r)
        ms1 == seeMethod(ms, r.Method)
        res == insert(ns, Root, methodFlagOf(ms1, r.Method), r.Method,
                      regexpNormalize(r.Path), i + 1)
    IN IF e # Nil THEN {TableError(e, i, r, Msg(msgOf(e), <<>>))}
       ELSE IF res.err = ErrTypeConflictingRoutes
       THEN {TableError(res.err, i, r, Msg(msgOf(res.err), c)) :
                c \in conflictMsgs(res.nodes, res.prefix, res.at)}
       ELSE IF res.err # Nil THEN {TableError(res.err, i, r, Msg(msgOf(res.err), <<>>))}
       ELSE {}

\* a nil Middleware
NilMw == [kind |-> "nil"]

\* no helper has been called
NoHelper == [op |-> "none", routes |-> <<>>, mws |-> <<>>, mw |-> NilMw, out |-> <<>>,
             k |-> 0, trace |-> <<>>]

\* the body of the loop of New with the conversion of the handler made
\* after insert
newStepConvertLate(ns, ms, mm, i, r) ==
    LET ms1 == seeMethod(ms, r.Method)
        mask == IF ms1 # ms /\ r.Method = MethodAny THEN {Len(ms1) - 1} ELSE mm
        res == insert(ns, Root, methodFlagOf(ms1, r.Method), r.Method,
                      regexpNormalize(r.Path), i + 1)
    IN IF checkRoute(r) # Nil
       THEN [Type |-> checkRoute(r), nodes |-> ns, methods |-> ms, methodMask |-> mm]
       ELSE IF res.err # Nil \/ checkHandler(r) # Nil
       THEN [Type |-> IF res.err # Nil THEN res.err ELSE checkHandler(r),
             nodes |-> res.nodes, methods |-> ms1, methodMask |-> mask]
       ELSE [Type |-> Nil, nodes |-> res.nodes, methods |-> ms1, methodMask |-> mask]

\* the body of the loop of New on route r, the (i+1)-th of the list: the
\* type of the error it returns, or nil, and the table it leaves
newStep(ns, ms, mm, i, r) ==
    LET ms1 == seeMethod(ms, r.Method)
        mask == IF ms1 # ms /\ r.Method = MethodAny THEN {Len(ms1) - 1} ELSE mm
        res == insert(ns, Root, methodFlagOf(ms1, r.Method), r.Method,
                      regexpNormalize(r.Path), i + 1)
    IN IF routeErr(r) # Nil
       THEN [Type |-> routeErr(r), nodes |-> ns, methods |-> ms, methodMask |-> mm]
       ELSE [Type |-> res.err, nodes |-> res.nodes, methods |-> ms1, methodMask |-> mask]

\* the loop of New run to its end on the list rs from route i on: the type
\* of the error New returns, or nil and the table
RECURSIVE newLoop(_, _, _, _, _)
newLoop(rs, i, ns, ms, mm) ==
    IF i = Len(rs)
    THEN [Type |-> Nil, nodes |-> ns, methods |-> ms, methodMask |-> mm]
    ELSE LET step == newStep(ns, ms, mm, i, rs[i + 1])
         IN IF step.Type # Nil THEN step
            ELSE newLoop(rs, i + 1, step.nodes, step.methods, step.methodMask)

\* New(rs)
New(rs) == newLoop(rs, 0, <<newNode(<<>>, {})>>, <<>>, {})

\* one iteration of the loop of New, on routes[idx]
NewRoute ==
    /\ ret = "running"
    /\ idx < Len(routes)
    /\ LET r == routes[idx + 1]
           step == newStep(nodes, methods, methodMask, idx, r)
       IN /\ nodes' = step.nodes
          /\ methods' = step.methods
          /\ methodMask' = step.methodMask
          /\ IF step.Type # Nil
             THEN /\ ret' = "error"
                  /\ err' \in newErrors(nodes, methods, idx, r)
                  /\ idx' = idx
             ELSE /\ idx' = idx + 1
                  /\ UNCHANGED <<ret, err>>
    /\ UNCHANGED <<routes, call, procs, helper>>

\* the loop is over: New returns the table
NewReturn ==
    /\ ret = "running"
    /\ idx = Len(routes)
    /\ ret' = "table"
    /\ UNCHANGED <<routes, idx, nodes, methods, methodMask, err, call, procs, helper>>

---------------------------------------------------------------------------
(* Matching                                                                *)

\* var variables funcs.PathVars: maxVars empty strings
PathVars == [i \in 1..maxVars |-> <<>>]

\* acceptMethods without the bit of MethodAny
acceptMethodsExact(ms, mm, m) ==
    IF m = MethodAny THEN {}
    ELSE LET hits == {i \in 1..Len(ms) : ms[i] = m}
         IN IF hits = {} THEN {}
            ELSE {(CHOOSE i \in hits : \A j \in hits : i <= j) - 1}

acceptMethods(ms, mm, m) ==
    IF m = MethodAny THEN {}
    ELSE LET hits == {i \in 1..Len(ms) : ms[i] = m}
         IN IF hits = {} THEN mm
            ELSE mm \cup {(CHOOSE i \in hits : \A j \in hits : i <= j) - 1}

\* the loop of matchPath that runs pathIdx to the next '/' or the end of path
RECURSIVE wcEnd(_, _)
wcEnd(path, pathIdx) ==
    IF pathIdx < Len(path) /\ path[pathIdx + 1] # "/"
    THEN wcEnd(path, pathIdx + 1)
    ELSE pathIdx

Miss(varIdx, vs) == [varIdx |-> varIdx, node |-> Nil, vars |-> vs, panic |-> FALSE]

\* an index out of range: the goroutine panics
Panic(varIdx, vs) == [varIdx |-> varIdx, node |-> Nil, vars |-> vs, panic |-> TRUE]

RECURSIVE matchNode(_, _, _, _, _, _, _)
RECURSIVE matchLabel(_, _, _, _, _, _, _, _)

\* the tail of the inner loop of matchPath, accepting a path that ends in the
\* middle of a label
matchAfterPrefix(ns, mask, path, ch, pathIdx, lblIdx, varIdx, vs) ==
    IF pathIdx # Len(path)
    THEN IF lblIdx # Len(ns[ch].label)
         THEN matchLabel(ns, mask, path, ch, pathIdx, lblIdx, varIdx, vs)
         ELSE matchNode(ns, mask, path, ch, pathIdx, varIdx, vs)
    ELSE [varIdx |-> varIdx, node |-> ch, vars |-> vs, panic |-> FALSE]

\* the tail of the inner loop of matchPath, after the switch
matchAfter(ns, mask, path, ch, pathIdx, lblIdx, varIdx, vs) ==
    IF pathIdx # Len(path)
    THEN IF lblIdx # Len(ns[ch].label)
         THEN matchLabel(ns, mask, path, ch, pathIdx, lblIdx, varIdx, vs)
         ELSE matchNode(ns, mask, path, ch, pathIdx, varIdx, vs)
    ELSE IF lblIdx # Len(ns[ch].label)
         THEN Miss(varIdx, vs)
         ELSE [varIdx |-> varIdx, node |-> ch, vars |-> vs, panic |-> FALSE]

\* the switch of the inner loop of matchPath
matchLabel(ns, mask, path, ch, pathIdx, lblIdx, varIdx, vs) ==
    IF path[pathIdx + 1] = ns[ch].label[lblIdx + 1]
    THEN matchAfter(ns, mask, path, ch, pathIdx + 1, lblIdx + 1, varIdx, vs)
    ELSE IF ns[ch].label[lblIdx + 1] = "*"
    THEN IF varIdx >= Len(vs)
         THEN Panic(varIdx, vs)
         ELSE matchAfter(ns, mask, path, ch, wcEnd(path, pathIdx), lblIdx + 1, varIdx + 1,
                         [vs EXCEPT ![varIdx + 1] = Slice(path, pathIdx, wcEnd(path, pathIdx))])
    ELSE Miss(varIdx, vs)

\* the head of the outer loop of matchPath: the choice of the child
matchNode(ns, mask, path, node, pathIdx, varIdx, vs) ==
    IF pathIdx >= Len(path) THEN Panic(varIdx, vs)
    ELSE LET lit == child(ns, node, path[pathIdx + 1])
             ch == IF lit = Nil \/ ns[lit].methods \cap mask = {}
                   THEN child(ns, node, "*")
                   ELSE lit
         IN IF ch = Nil \/ ns[ch].methods \cap mask = {}
            THEN Miss(varIdx, vs)
            ELSE matchLabel(ns, mask, path, ch, pathIdx, 0, varIdx, vs)

matchPath(ns, mask, path, vs) == matchNode(ns, mask, path, Root, 0, 0, vs)

\* Table.ServeHTTP: the handler it invokes (0 is Table.Default) and the path
\* variables it hands over
serveHTTP(ns, ms, mm, m, path) ==
    LET accept == acceptMethods(ms, mm, m)
        mp == matchPath(ns, accept, path, PathVars)
        dflt == [handler |-> Nil, variables |-> PathVars, n |-> 0, panic |-> FALSE]
    IN IF accept = {} THEN dflt
       ELSE IF mp.panic THEN [dflt EXCEPT !.panic = TRUE]
       ELSE IF mp.node # Nil /\ handler(ns, mp.node, m) # Nil
            THEN [handler |-> handler(ns, mp.node, m), variables |-> mp.vars,
                  n |-> mp.varIdx, panic |-> FALSE]
       ELSE IF mp.node # Nil /\ handler(ns, mp.node, MethodAny) # Nil
            THEN [handler |-> handler(ns, mp.node, MethodAny), variables |-> mp.vars,
                  n |-> mp.varIdx, panic |-> FALSE]
       ELSE dflt

\* Table.Vars: variables[:i] and whether a node was matched
tableVars(ns, ms, mm, m, path) ==
    LET mp == matchPath(ns, acceptMethods(ms, mm, m), path, PathVars)
    IN [variables |-> Slice(mp.vars, 0, mp.varIdx), found |-> mp.node # Nil,
        panic |-> mp.panic]

---------------------------------------------------------------------------
(* Inputs: the route lists New is called with, and the requests            *)

Methods == {"GET", "POST", MethodAny}

\* a handler func(w, r, s1, ..., sk)
Func(k) == [sig |-> "func", params |-> k]

\* func(w, r, i int): a signature Convert does not support
Unsupported == [sig |-> "int", params |-> 1]

Route(m, p, hv) == [Method |-> m, Path |-> p, Handler |-> hv]

\* patterns that meet in the trie in every way: a shared edge, an edge split
\* in its middle, an edge split by a prefix, literal beside wildcard
TriePaths ==
    { <<"/", "a">>, <<"/", ":">>, <<"/", "a", "/", "a">>,
      <<"/", ":", "/", "a">>, <<"/", ":", "a", "/", ":">> }

\* the patterns a second method and MethodAny are registered on
SharedPaths == { <<"/", "a">>, <<"/", ":">> }

AnyPaths == SharedPaths \cup { <<"/", ":", "/", "a">> }

\* routes that pass every check New makes on a route alone
TrieRoutes ==
    {Route("GET", p, Func(numPathParams(p))) : p \in TriePaths}
    \cup {Route("POST", p, Func(numPathParams(p))) : p \in SharedPaths}
    \cup {Route(MethodAny, p, Func(numPathParams(p))) : p \in AnyPaths}

\* one route for each defect New looks for in a route alone
BadRoutes ==
    { Route("", <<"/">>, Func(0)),
      Route("GET", <<"/">>, NilHandler),
      Route("GET", <<>>, Func(0)),
      Route("GET", <<"a">>, Func(0)),
      Route("GET", <<"/", "*">>, Func(0)),
      Route("GET", <<"/", "a", ":">>, Func(0)),
      Route("GET", <<"/", ":">>, Unsupported) }

\* paths with 1 and 2 wildcards
CheckPaths == { <<"/", ":", "a">>, <<"/", ":", "/", ":">> }

\* a path of k wildcards: "/:" k times
RECURSIVE WildPath(_)
WildPath(k) == IF k = 0 THEN <<>> ELSE <<"/", ":">> \o WildPath(k - 1)

\* routes at the ceiling of maxVars wildcards and one above it
CeilingRoutes ==
    { Route("GET", WildPath(maxVars), Func(0)),
      Route("GET", WildPath(maxVars + 1), Func(0)),
      Route(MethodAny, WildPath(maxVars + 1), Func(1)) }

\* handlers of every parameter count on every path, under a method and
\* under MethodAny; "/:" is "/:a" but for the name of its wildcard
CheckRoutes ==
    BadRoutes
    \cup {Route(m, p, Func(k)) : m \in {"GET", MethodAny}, p \in CheckPaths, k \in 0..MaxParams}
    \cup {Route("GET", <<"/", ":">>, Func(1))}
    \cup CeilingRoutes

Lists(S, n) == UNION {[1..k -> S] : k \in 0..n}

\* routes that come into conflict under two methods and two literals
MsgRoutes ==
    { Route("GET", <<"/", "a">>, Func(0)), Route("GET", <<"/", "b">>, Func(0)),
      Route("GET", <<"/", ":">>, Func(1)),
      Route("POST", <<"/", "a">>, Func(0)), Route("POST", <<"/", ":">>, Func(1)) }

\* a handler func(w, r, h0 int64), h0 in base 16
FuncH1 == [sig |-> "funcH1", params |-> 1]

\* a table of one route that takes a base-16 integer
HexLists == { <<Route("GET", <<"/", ":">>, FuncH1)>> }

\* paths whose segments hold a ':' after a ':' or after a name, or a '*'
SegmentPaths ==
    { <<"/", ":", ":">>, <<"/", ":", "a", ":">>, <<"/", "a", "/", "*">>,
      <<"/", ":", "*">>, <<"/", ":", "/", "a", ":">> }

\* lists of one route on each of them
SegmentLists == { <<Route("GET", p, Func(0))>> : p \in SegmentPaths }

RouteLists ==
    Lists(TrieRoutes, MaxRoutes) \cup Lists(CheckRoutes, MaxCheckRoutes)
    \cup Lists(MsgRoutes, MaxMsgRoutes) \cup HexLists \cup SegmentLists

RECURSIVE Strings(_, _)
Strings(chars, n) ==
    IF n = 0 THEN {<<>>}
    ELSE LET shorter == Strings(chars, n - 1)
         IN shorter \cup {Append(s, c) : s \in shorter, c \in chars}

\* request paths that hold the byte New reserves for a wildcard
StarPaths == { <<"/", "*">>, <<"/", "*", "a">>, <<"/", "*", "/", "a">> }

\* a request path whose segment is no base-16 integer
NonHexPaths == { <<"/", "x", "y", "z">> }

\* the RequestURI of a request made by http.NewRequest: the empty string
EmptyPaths == { <<>> }

ReqPaths ==
    {p \in Strings({"/", "a"}, MaxReqLen) : p # <<>> /\ p[1] = "/"} \cup StarPaths
    \cup NonHexPaths \cup EmptyPaths

---------------------------------------------------------------------------
(* Calls in flight: goroutine p runs Table.ServeHTTP or Table.Vars one      *)
(* iteration of the loops of matchPath at a time.  A goroutine reads the    *)
(* table and writes the array `variables` of its own call frame.            *)

Procs == 1..MaxProcs

Idle == [pc |-> "idle", op |-> "none", Method |-> "", Path |-> <<>>, mask |-> {},
         node |-> Nil, child |-> Nil, pathIdx |-> 0, lblIdx |-> 0, varIdx |-> 0,
         vars |-> PathVars, iters |-> 0, out |-> <<>>]

\* one array `variables` for all the calls
variablesShared(p) == 1

\* var variables funcs.PathVars: the array of the frame of call p
variablesOf(p) == p

\* what the call does once matchPath has returned (i, node): ServeHTTP picks
\* the handler and hands it a copy of variables, Vars returns variables[:i]
\* and node != nil
afterMatch(ns, st, vs, i, node, panic) ==
    IF st.op = "ServeHTTP"
    THEN IF panic THEN [handler |-> Nil, variables |-> PathVars, n |-> 0, panic |-> TRUE]
         ELSE IF node # Nil /\ handler(ns, node, st.Method) # Nil
         THEN [handler |-> handler(ns, node, st.Method), variables |-> vs, n |-> i, panic |-> FALSE]
         ELSE IF node # Nil /\ handler(ns, node, MethodAny) # Nil
         THEN [handler |-> handler(ns, node, MethodAny), variables |-> vs, n |-> i, panic |-> FALSE]
         ELSE [handler |-> Nil, variables |-> PathVars, n |-> 0, panic |-> FALSE]
    ELSE [variables |-> Slice(vs, 0, i), found |-> node # Nil, panic |-> panic]

\* the requests the goroutines make
ConcRequests ==
    { [op |-> "ServeHTTP", Method |-> "GET", Path |-> <<"/", "a">>],
      [op |-> "ServeHTTP", Method |-> "GET", Path |-> <<"/", "a", "a">>],
      [op |-> "Vars", Method |-> "GET", Path |-> <<"/", "a", "/", "a">>],
      [op |-> "Vars", Method |-> "POST", Path |-> <<"/", "a", "a">>],
      [op |-> "ServeHTTP", Method |-> MethodAny, Path |-> <<"/", "a">>] }

\* the tables they are made on
ConcLists ==
    { <<Route("GET", <<"/", ":">>, Func(1))>>,
      <<Route("GET", <<"/", "a">>, Func(0)), Route(MethodAny, <<"/", ":">>, Func(1))>>,
      <<Route("GET", <<"/", ":", "/", "a">>, Func(1)), Route("POST", <<"/", ":">>, Func(1)),
        Route("GET", <<"/", ":">>, Func(1))>> }

InitConc ==
    /\ routes \in ConcLists
    /\ idx = 0
    /\ nodes = <<newNode(<<>>, {})>>
    /\ methods = <<>>
    /\ methodMask = {}
    /\ ret = "running"
    /\ err = NoError
    /\ call = NoCall
    /\ procs = [p \in Procs |-> Idle]
    /\ helper = NoHelper

\* the call is made: acceptMethods, the zeroed array, and the entry of matchPath
Begin ==
    /\ ret = "table"
    /\ \E p \in Procs, rq \in ConcRequests :
          LET accept == acceptMethods(methods, methodMask, rq.Method)
              st == [Idle EXCEPT !.op = rq.op, !.Method = rq.Method, !.Path = rq.Path,
                                 !.mask = accept, !.node = Root]
              own == [procs EXCEPT ![p] = st]
          IN /\ procs[p].pc = "idle"
             /\ IF rq.op = "ServeHTTP" /\ accept = {}
                THEN procs' = [own EXCEPT ![p].pc = "done",
                                          ![p].out = afterMatch(nodes, st, PathVars, 0, Nil, FALSE)]
                ELSE procs' = [own EXCEPT ![p].pc = "node", ![variablesOf(p)].vars = PathVars]
    /\ UNCHANGED <<routes, idx, nodes, methods, methodMask, ret, err, call, helper>>

\* matchPath returns (i, node) to call p
returnMatch(p, i, node, panic) ==
    [procs EXCEPT ![p].pc = "done", ![p].varIdx = i,
                  ![p].out = afterMatch(nodes, procs[p], procs[variablesOf(p)].vars, i, node, panic)]

\* the head of the outer loop of matchPath: the choice of the child
StepNodeOf(p) ==
    /\ LET st == procs[p]
           lit == child(nodes, st.node, st.Path[st.pathIdx + 1])
           ch == IF lit = Nil \/ nodes[lit].methods \cap st.mask = {}
                 THEN child(nodes, st.node, "*")
                 ELSE lit
       IN /\ st.pc = "node"
          /\ IF st.pathIdx >= Len(st.Path)
             THEN procs' = returnMatch(p, st.varIdx, Nil, TRUE)
             ELSE IF ch = Nil \/ nodes[ch].methods \cap st.mask = {}
             THEN procs' = returnMatch(p, st.varIdx, Nil, FALSE)
             ELSE procs' = [procs EXCEPT ![p].pc = "label", ![p].child = ch, ![p].lblIdx = 0]
    /\ UNCHANGED <<routes, idx, nodes, methods, methodMask, ret, err, call, helper>>

StepNode == \E p \in Procs : StepNodeOf(p)

\* the switch of the inner loop of matchPath, its wildcard case leaving
\* lblIdx where it is
switchStuck(ns, st) ==
    LET label == ns[st.child].label
        same == st.Path[st.pathIdx + 1] = label[st.lblIdx + 1]
        wild == ~same /\ label[st.lblIdx + 1] = "*"
        pathIdx == IF same THEN st.pathIdx + 1 ELSE wcEnd(st.Path, st.pathIdx)
    IN [same |-> same, wild |-> wild, pathIdx |-> pathIdx,
        lblIdx |-> IF same THEN st.lblIdx + 1 ELSE st.lblIdx,
        varIdx |-> IF wild THEN st.varIdx + 1 ELSE st.varIdx,
        iters |-> st.iters + 1 + (IF wild THEN pathIdx - st.pathIdx ELSE 0)]

\* the switch of the inner loop of matchPath: which case applies, and the
\* indices after it; iters counts the iterations of the inner loop and of
\* the loop over the bytes of a wildcard
switch(ns, st) ==
    LET label == ns[st.child].label
        same == st.Path[st.pathIdx + 1] = label[st.lblIdx + 1]
        wild == ~same /\ label[st.lblIdx + 1] = "*"
        pathIdx == IF same THEN st.pathIdx + 1 ELSE wcEnd(st.Path, st.pathIdx)
    IN [same |-> same, wild |-> wild, pathIdx |-> pathIdx,
        lblIdx |-> st.lblIdx + 1,
        varIdx |-> IF wild THEN st.varIdx + 1 ELSE st.varIdx,
        iters |-> st.iters + 1 + (IF wild THEN pathIdx - st.pathIdx ELSE 0)]

\* one iteration of the inner loop of matchPath: the switch and the tests
\* that follow it
StepLabelOf(p) ==
    /\ LET st == procs[p]
           label == nodes[st.child].label
           sw == switch(nodes, st)
           written == IF sw.wild
                      THEN [procs EXCEPT ![variablesOf(p)].vars[st.varIdx + 1] =
                                            Slice(st.Path, st.pathIdx, sw.pathIdx)]
                      ELSE procs
           moved == [written EXCEPT ![p].pathIdx = sw.pathIdx, ![p].lblIdx = sw.lblIdx,
                                    ![p].varIdx = sw.varIdx, ![p].iters = sw.iters]
       IN /\ st.pc = "label"
          /\ IF ~sw.same /\ ~sw.wild
             THEN procs' = returnMatch(p, st.varIdx, Nil, FALSE)
             ELSE IF sw.wild /\ st.varIdx >= maxVars
             THEN procs' = returnMatch(p, st.varIdx, Nil, TRUE)
             ELSE IF sw.pathIdx # Len(st.Path)
             THEN IF sw.lblIdx # Len(label)
                  THEN procs' = moved
                  ELSE procs' = [moved EXCEPT ![p].node = st.child, ![p].pc = "node"]
             ELSE procs' =
                    [moved EXCEPT ![p].pc = "done",
                                  ![p].out = afterMatch(nodes, st, moved[variablesOf(p)].vars,
                                                        sw.varIdx,
                                                        IF sw.lblIdx # Len(label) THEN Nil
                                                        ELSE st.child,
                                                        FALSE)]
    /\ UNCHANGED <<routes, idx, nodes, methods, methodMask, ret, err, call, helper>>

StepLabel == \E p \in Procs : StepLabelOf(p)

\* the call returns to its caller and its frame is gone
End ==
    /\ \E p \in Procs :
          /\ procs[p].pc = "done"
          /\ procs' = [procs EXCEPT ![p] = Idle]
    /\ UNCHANGED <<routes, idx, nodes, methods, methodMask, ret, err, call, helper>>

NextConc == NewRoute \/ NewReturn \/ Begin \/ StepNode \/ StepLabel \/ End

SpecConc == InitConc /\ [][NextConc]_vars

\* the scheduler runs every goroutine that can run: a call that is in
\* matchPath takes its next iteration
SpecConcFair ==
    SpecConc /\ \A p \in Procs : WF_vars(StepNodeOf(p)) /\ WF_vars(StepLabelOf(p))

---------------------------------------------------------------------------
(* The helpers that prepare a route list for New: Compose, Wrap and         *)
(* DefaultMethod.  A Middleware is nil, a middleware of the caller (it      *)
(* notes its entry, calls next and notes its exit) or the closure Compose   *)
(* builds over two middlewares.  What a request does is the sequence of     *)
(* the events it causes.                                                    *)

UserMw(name) == [kind |-> "user", name |-> name]

\* the MiddlewareFunc of the loop of Compose: mw1 handles, its next is mw2
ComposedMw(mw1, mw2) == [kind |-> "composed", mw1 |-> mw1, mw2 |-> mw2]

\* mw.Handle(w, r, next): the events, given those of next
RECURSIVE Handle(_, _)
Handle(mw, next) ==
    IF mw.kind = "user"
    THEN <<<<"enter", mw.name>>>> \o next \o <<<<"exit", mw.name>>>>
    ELSE Handle(mw.mw1, Handle(mw.mw2, next))

\* the loop of Compose, from i down to the first middleware
RECURSIVE composeLoop(_, _, _)
composeLoop(mws, i, mw) ==
    IF i < 1 THEN mw ELSE composeLoop(mws, i - 1, ComposedMw(mws[i], mw))

\* Compose with the middlewares taken from the last to the first
ComposeRightToLeft(mw, mws) ==
    LET all == <<mw>> \o mws
        rev == [i \in 1..Len(all) |-> all[Len(all) + 1 - i]]
    IN composeLoop(rev, Len(rev) - 1, rev[Len(rev)])

Compose(mw, mws) ==
    LET all == <<mw>> \o mws
    IN composeLoop(all, Len(all) - 1, all[Len(all)])

Wrap(mw, rs) ==
    [k \in 1..Len(rs) |->
        IF rs[k].Middleware # NilMw
        THEN [rs[k] EXCEPT !.Middleware = Compose(mw, <<rs[k].Middleware>>)]
        ELSE [rs[k] EXCEPT !.Middleware = mw]]

\* the handler New stores for a route: applyMiddleware when the route has a
\* middleware; h is the route's own handler
applyMiddleware(h, mw) == Handle(mw, <<<<"handler", h>>>>)

stored(r, h) ==
    IF r.Middleware # NilMw THEN applyMiddleware(h, r.Middleware) ELSE <<<<"handler", h>>>>

\* DefaultMethod without its first loop over the routes
RECURSIVE defaultLoop(_, _, _)
defaultLoop(hndlr, rs, defaultSeen) ==
    IF rs = <<>> THEN <<>>
    ELSE IF Head(rs).Path \notin defaultSeen
         THEN <<Head(rs), [Method |-> MethodAny, Path |-> Head(rs).Path, Handler |-> hndlr,
                           Middleware |-> NilMw]>>
              \o defaultLoop(hndlr, Tail(rs), defaultSeen \cup {Head(rs).Path})
         ELSE <<Head(rs)>> \o defaultLoop(hndlr, Tail(rs), defaultSeen)

DefaultMethodNoScan(hndlr, rs) == defaultLoop(hndlr, rs, {})

DefaultMethod(hndlr, rs) ==
    defaultLoop(hndlr, rs, {rs[k].Path : k \in {j \in 1..Len(rs) : rs[j].Method = MethodAny}})

RouteMw(m, p, hv, mw) == [Method |-> m, Path |-> p, Handler |-> hv, Middleware |-> mw]

\* the handler handed to DefaultMethod
DefaultHandler == [sig |-> "func", params |-> 0, name |-> "hndlr"]

\* the middlewares handed to Compose, the first to the last
MwSeqs == UNION {[1..k -> {UserMw("a"), UserMw("b")}] : k \in 1..MaxMws}

\* a route without a middleware and a route with its own, m1
WrapRoutes ==
    { RouteMw("GET", <<"/">>, Func(0), UserMw("m1")), RouteMw("POST", <<"/">>, Func(0), NilMw) }

DefaultRoutes ==
    {RouteMw(m, q, Func(0), NilMw) : m \in {"GET", MethodAny}, q \in {<<"/">>, <<"/", "a">>}}

InitHelpers ==
    /\ routes = <<>>
    /\ idx = 0
    /\ nodes = <<newNode(<<>>, {})>>
    /\ methods = <<>>
    /\ methodMask = {}
    /\ ret = "running"
    /\ err = NoError
    /\ call = NoCall
    /\ procs = [p \in Procs |-> Idle]
    /\ helper \in
          {[NoHelper EXCEPT !.op = "Compose", !.routes = rs, !.mws = ms] :
              rs \in Lists(WrapRoutes, MaxMws), ms \in MwSeqs}
          \cup {[NoHelper EXCEPT !.op = "DefaultMethod", !.routes = rs] :
                  rs \in Lists(DefaultRoutes, MaxHelperRoutes)}

\* mw := Compose(mws[0], mws[1:]...)
CallCompose ==
    /\ helper.op = "Compose"
    /\ helper' = [helper EXCEPT !.op = "composed", !.mw = Compose(Head(helper.mws), Tail(helper.mws))]
    /\ UNCHANGED <<routes, idx, nodes, methods, methodMask, ret, err, call, procs>>

\* a request is handled by mw around handler 0
CallHandle ==
    /\ helper.op = "composed"
    /\ helper' = [helper EXCEPT !.op = "handled", !.trace = applyMiddleware(0, helper.mw)]
    /\ UNCHANGED <<routes, idx, nodes, methods, methodMask, ret, err, call, procs>>

\* out := Wrap(mw, routes)
CallWrap ==
    /\ helper.op = "composed"
    /\ helper' = [helper EXCEPT !.op = "wrapped", !.out = Wrap(helper.mw, helper.routes)]
    /\ UNCHANGED <<routes, idx, nodes, methods, methodMask, ret, err, call, procs>>

\* a request is routed to route k of the wrapped list
ServeWrapped ==
    /\ helper.op = "wrapped"
    /\ \E k \in 1..Len(helper.out) :
          helper' = [helper EXCEPT !.op = "served", !.k = k, !.trace = stored(helper.out[k], k)]
    /\ UNCHANGED <<routes, idx, nodes, methods, methodMask, ret, err, call, procs>>

\* out := DefaultMethod(hndlr, routes)
CallDefaultMethod ==
    /\ helper.op = "DefaultMethod"
    /\ helper' = [helper EXCEPT !.op = "defaulted",
                                !.out = DefaultMethod(DefaultHandler, helper.routes)]
    /\ UNCHANGED <<routes, idx, nodes, methods, methodMask, ret, err, call, procs>>

NextHelpers == CallCompose \/ CallHandle \/ CallWrap \/ ServeWrapped \/ CallDefaultMethod

SpecHelpers == InitHelpers /\ [][NextHelpers]_vars

---------------------------------------------------------------------------
(* The program: New(routes), then requests served by the table it returns  *)

Init ==
    /\ routes \in RouteLists
    /\ idx = 0
    /\ nodes = <<newNode(<<>>, {})>>
    /\ methods = <<>>
    /\ methodMask = {}
    /\ ret = "running"
    /\ err = NoError
    /\ call = NoCall
    /\ procs = [p \in Procs |-> Idle]
    /\ helper = NoHelper

ServeHTTP ==
    /\ ret = "table"
    /\ call = NoCall
    /\ \E m \in Methods, p \in ReqPaths :
          LET out == serveHTTP(nodes, methods, methodMask, m, p)
          IN call' = [op |-> "ServeHTTP", Method |-> m, Path |-> p, handler |-> out.handler,
                      variables |-> out.variables, n |-> out.n, found |-> FALSE,
                      panic |-> out.panic,
                      served |-> IF out.handler = Nil THEN notFound
                                 ELSE bind(routes[out.handler].Handler, out.variables)]
    /\ UNCHANGED <<routes, idx, nodes, methods, methodMask, ret, err, procs, helper>>

Vars ==
    /\ ret = "table"
    /\ call = NoCall
    /\ \E m \in Methods, p \in ReqPaths :
          LET out == tableVars(nodes, methods, methodMask, m, p)
          IN call' = [op |-> "Vars", Method |-> m, Path |-> p, handler |-> Nil,
                      variables |-> out.variables, n |-> Len(out.variables),
                      found |-> out.found, panic |-> out.panic, served |-> notFound]
    /\ UNCHANGED <<routes, idx, nodes, methods, methodMask, ret, err, procs, helper>>

\* the call returns to its caller
Return ==
    /\ call # NoCall
    /\ call' = NoCall
    /\ UNCHANGED <<routes, idx, nodes, methods, methodMask, ret, err, procs, helper>>

Next == NewRoute \/ NewReturn \/ ServeHTTP \/ Vars \/ Return

Spec == Init /\ [][Next]_vars

---------------------------------------------------------------------------
(* What it means for a route to match a request, stated on the route's     *)
(* pattern alone: literal bytes equal, and each wildcard standing for a    *)
(* run of bytes other than '/'.  Whether the run may be empty is left to   *)
(* the reader of a claim, so both readings are defined.                    *)

\* the run of bytes of s before its first '/'
RECURSIVE Segment(_)
Segment(s) == IF s = <<>> \/ Head(s) = "/" THEN <<>> ELSE <<Head(s)>> \o Segment(Tail(s))

\* the captures of request path s under pattern pat (a path of a route, its
\* wildcards still named), or <<"no match">>; empty says whether a wildcard
\* may stand for the empty string
RECURSIVE Captures(_, _, _)
Captures(pat, s, empty) ==
    IF pat = <<>> THEN (IF s = <<>> THEN <<>> ELSE <<"no match">>)
    ELSE IF Head(pat) = ":"
         THEN LET seg == Segment(s)
                  rest == Captures(skipName(Tail(pat)), SubSeq(s, Len(seg) + 1, Len(s)), empty)
              IN IF (seg = <<>> /\ ~empty) \/ rest = <<"no match">> THEN <<"no match">>
                 ELSE <<seg>> \o rest
         ELSE IF s # <<>> /\ Head(s) = Head(pat) THEN Captures(Tail(pat), Tail(s), empty)
         ELSE <<"no match">>

PatternMatches(pat, s, empty) == Captures(pat, s, empty) # <<"no match">>

\* the routes of the list (by position) that match method m and path p
MatchingRoutes(m, p, empty) ==
    {i \in 1..Len(routes) : routes[i].Method = m /\ PatternMatches(routes[i].Path, p, empty)}

\* a request the claims are read on: a real method, and a path without the
\* byte '*' (the claims are given their most favourable reading)
PlainRequest(c) == c.Method # MethodAny /\ ~Contains(c.Path, "*")

---------------------------------------------------------------------------
(* Claims                                                                  *)

\* C1: when exactly one registered route matches the request (same method,
\* literal segments equal, wildcards filled by strings without '/'),
\* ServeHTTP invokes that route's handler, not Table.Default and not another
\* route's handler.
C1_UniqueMatchServed ==
    (call.op = "ServeHTTP" /\ PlainRequest(call)
        /\ Cardinality(MatchingRoutes(call.Method, call.Path, TRUE)) = 1
        /\ MatchingRoutes(call.Method, call.Path, TRUE) = MatchingRoutes(call.Method, call.Path, FALSE))
    => call.handler \in MatchingRoutes(call.Method, call.Path, TRUE)

\* C2: whenever a request matches the registered route it is routed to, the
\* captures handed to the handler and returned by Vars are the substrings in
\* the pattern's wildcard positions, in left-to-right order, and their number
\* is the number of wildcards of the pattern.
C2_CapturesExact ==
    LET out == serveHTTP(nodes, methods, methodMask, call.Method, call.Path)
        pat == routes[out.handler].Path
    IN (call.op \in {"ServeHTTP", "Vars"} /\ call.Method # MethodAny
          /\ out.handler # Nil /\ PatternMatches(pat, call.Path, FALSE))
       => /\ call.n = numPathParams(pat)
          /\ Slice(call.variables, 0, call.n) = Captures(pat, call.Path, FALSE)

\* C3: for a request that no registered route matches (by path and by
\* method, MethodAny routes included), Vars reports found = false and
\* ServeHTTP invokes Table.Default; and Vars reports found = true only for
\* requests that ServeHTTP routes to a route handler.
C3_NoMatchDefault ==
    LET out == serveHTTP(nodes, methods, methodMask, call.Method, call.Path)
        none == MatchingRoutes(call.Method, call.Path, TRUE) = {}
                  /\ MatchingRoutes(MethodAny, call.Path, TRUE) = {}
    IN /\ (call.op = "ServeHTTP" /\ PlainRequest(call) /\ none) => call.handler = Nil
       /\ (call.op = "Vars" /\ PlainRequest(call) /\ none) => ~call.found
       /\ (call.op = "Vars" /\ PlainRequest(call) /\ call.found) => out.handler # Nil

\* New has returned, a table or an error, and the table has served nothing
\* yet: the routes and what New returned do not change after this
Returned == ret # "running" /\ call = NoCall

\* route r passes every check New makes on a route alone
Valid(r) == routeErr(r) = Nil

\* the first Go index at which a and b differ, or the length of the shorter
RECURSIVE FirstDiff(_, _)
FirstDiff(a, b) ==
    IF a = <<>> \/ b = <<>> \/ Head(a) # Head(b) THEN 0
    ELSE 1 + FirstDiff(Tail(a), Tail(b))

\* after a common prefix, normalized pattern a has a wildcard where b has a
\* (non-empty) literal segment
WildBesideLiteral(a, b) ==
    LET k == FirstDiff(a, b)
    IN /\ k < Len(a) /\ k < Len(b)
       /\ a[k + 1] = "*"
       /\ b[k + 1] # "/"

LiteralVsWildcard(p, q) ==
    \/ WildBesideLiteral(regexpNormalize(p), regexpNormalize(q))
    \/ WildBesideLiteral(regexpNormalize(q), regexpNormalize(p))

C5_NoSharedMaskSiblings ==
    ret = "table" =>
        \A n \in 1..Len(nodes) :
            \A i, j \in 1..Len(nodes[n].children) :
                LET w == nodes[nodes[n].children[i]]
                    l == nodes[nodes[n].children[j]]
                IN (w.label[1] = "*" /\ l.label[1] # "*") => w.methods \cap l.methods = {}

\* the bits of method m and of MethodAny in the table: the subtrees a request
\* of method m may be served from
RequestMask(m) == {i - 1 : i \in {j \in 1..Len(methods) : methods[j] \in {m, MethodAny}}}

\* the handlers registered at node n for method m
HandlersFor(n, m) ==
    {nodes[n].hndlrs[i].Handler : i \in {j \in 1..Len(nodes[n].hndlrs) : nodes[n].hndlrs[j].Method = m}}

\* C6: for a request of method m other than "~" whose path reaches a node:
\* the node's handler for m is invoked if it has one; otherwise its MethodAny
\* handler if it has one (also when no route registered m); otherwise
\* Table.Default.
C6_MethodResolution ==
    LET n == matchPath(nodes, RequestMask(call.Method), call.Path, PathVars).node
    IN (call.op = "ServeHTTP" /\ call.Method # MethodAny /\ n # Nil)
       => IF HandlersFor(n, call.Method) # {}
          THEN HandlersFor(n, call.Method) = {call.handler}
          ELSE IF HandlersFor(n, MethodAny) # {}
          THEN HandlersFor(n, MethodAny) = {call.handler}
          ELSE call.handler = Nil

\* a request whose method no route registered is served by a MethodAny handler
C6_Witness ==
    /\ call.op = "ServeHTTP"
    /\ \A i \in 1..Len(routes) : routes[i].Method # call.Method
    /\ call.handler # Nil
    /\ routes[call.handler].Method = MethodAny

\* route j repeats the method and the normalized path of an earlier route
Duplicate(j) ==
    \E i \in 1..(j - 1) :
        /\ routes[i].Method = routes[j].Method
        /\ regexpNormalize(routes[i].Path) = regexpNormalize(routes[j].Path)

\* route j has the normalized path of an earlier route
SamePathEarlier(j) ==
    \E i \in 1..(j - 1) : regexpNormalize(routes[i].Path) = regexpNormalize(routes[j].Path)

\* every route of the list up to route j is valid on its own
ValidUpTo(j) == \A i \in 1..j : Valid(routes[i])

\* C7: New fails with ErrTypeDuplicateHandler, Idx the index of the later
\* route, when a valid route repeats the method and the normalized path of an
\* earlier one; a valid route that repeats only the path of earlier routes,
\* under another method, is accepted.
C7_DuplicateHandler ==
    /\ \A j \in 1..Len(routes) :
          (Returned /\ ValidUpTo(j) /\ Duplicate(j))
          => /\ ret = "error"
             /\ err.Idx + 1 <= j
             /\ (err.Idx + 1 = j => err.Type = ErrTypeDuplicateHandler)
    /\ \A j \in 1..Len(routes) :
          (ret = "error" /\ err.Idx + 1 = j /\ Valid(routes[j]) /\ SamePathEarlier(j))
          => Duplicate(j)

\* "/:" and "/:a" under one method collide
C7_Witness ==
    /\ ret = "error" /\ err.Type = ErrTypeDuplicateHandler /\ err.Idx >= 1
    /\ \E i \in 1..err.Idx : routes[i].Path # err.Route.Path

\* C8: New takes the routes in list order and stops at the first it cannot
\* accept: the error's Idx is the zero-based index of that route, every route
\* before it was accepted, its Route is that route, and nothing more is done
\* once the error is returned (no table is returned).
C8_FailFast ==
    /\ [](ret = "error" =>
            /\ err.Type # Nil
            /\ err.Idx = idx /\ err.Idx < Len(routes)
            /\ err.Route = routes[err.Idx + 1]
            /\ \A i \in 1..err.Idx : Valid(routes[i]) /\ ~Duplicate(i)
            /\ (~Valid(err.Route) => err.Type = routeErr(err.Route)))
    /\ []((ret = "table" /\ call = NoCall) =>
            /\ err = NoError
            /\ idx = Len(routes)
            /\ \A i \in 1..Len(routes) : Valid(routes[i]) /\ ~Duplicate(i))
    /\ [][ret = "error" => UNCHANGED vars]_vars

\* New stops at the third route of a list
C8_Witness == ret = "error" /\ err.Idx = 2 /\ Len(routes) = 3

\* the number of parameters the handler of r declares, and of wildcards of r
HandlerParams(r) == r.Handler.params

Wildcards(r) == Cardinality({i \in 1..Len(r.Path) : r.Path[i] = ":"})

\* r gets as far as the check of the parameter count
CountChecked(r) == checkRoute(r) = Nil /\ r.Handler.sig = "func"

WellFormed(r) ==
    /\ r.Method # "" /\ r.Handler # NilHandler
    /\ r.Path # <<>> /\ r.Path[1] = "/"
    /\ ~Contains(r.Path, "*") /\ ~regexpInvalidVar(r.Path)

\* C11: a route whose path has more than 8 wildcards makes New fail with
\* ErrTypeOutOfRange and that route's index, whatever the parameter count of
\* its handler; a path with exactly 8 wildcards is not rejected for that
\* reason.
C11_OutOfRange ==
    /\ \A j \in 1..Len(routes) :
          (Returned /\ WellFormed(routes[j]) /\ Wildcards(routes[j]) > 8)
          => /\ ret = "error"
             /\ err.Idx + 1 <= j
             /\ (err.Idx + 1 = j => err.Type = ErrTypeOutOfRange /\ err.Route = routes[j])
    /\ (ret = "error" /\ err.Type = ErrTypeOutOfRange) => Wildcards(err.Route) > 8
    /\ \A j \in 1..Len(routes) :
          (ret = "error" /\ err.Idx + 1 = j /\ Wildcards(routes[j]) = 8 /\ HandlerParams(routes[j]) = 0)
          => err.Type # ErrTypeOutOfRange

\* a route of 9 wildcards whose handler takes a parameter is refused as the
\* second of a list, after a route of 8 wildcards was accepted
C11_Witness ==
    /\ ret = "error" /\ err.Type = ErrTypeOutOfRange /\ err.Idx = 1
    /\ Wildcards(err.Route) = 9 /\ HandlerParams(err.Route) = 1
    /\ Wildcards(routes[1]) = 8

\* the number of '/' of s
Slashes(s) == Cardinality({i \in 1..Len(s) : s[i] = "/"})

\* C12: a route is matched only when the request path and its pattern are
\* exhausted together, every wildcard standing for a run of bytes without
\* '/': the route ServeHTTP invokes has as many segments as the request, and
\* no capture holds a '/'; so a request that is a strict prefix or an
\* extension of the pattern, or the pattern with a trailing '/', is not
\* served by that route.
C12_ExhaustedTogether ==
    (call.op = "ServeHTTP" /\ call.handler # Nil)
    => /\ PatternMatches(routes[call.handler].Path, call.Path, TRUE)
       /\ Slashes(routes[call.handler].Path) = Slashes(call.Path)
       /\ \A i \in 1..call.n : ~Contains(call.variables[i], "/")

\* the request is a pattern of its method with a '/' added, or with its last
\* byte removed, and goes to Table.Default; and a request one segment longer
\* than a wildcard pattern does too
C12_Witness ==
    /\ call.op = "ServeHTTP" /\ call.handler = Nil /\ call.Method = "GET"
    /\ \E i \in 1..Len(routes) :
          /\ routes[i].Method = "GET"
          /\ \/ call.Path = routes[i].Path \o <<"/">>
             \/ call.Path \o <<"a">> = routes[i].Path
             \/ routes[i].Path = <<"/", ":">> /\ call.Path = <<"/", "a", "/", "a">>

\* what call p gets when it is the only call made on the table
Alone(p) ==
    IF procs[p].op = "ServeHTTP"
    THEN serveHTTP(nodes, methods, methodMask, procs[p].Method, procs[p].Path)
    ELSE tableVars(nodes, methods, methodMask, procs[p].Method, procs[p].Path)

\* C13: on a built table, calls of ServeHTTP and Vars interleaved in any way,
\* each with the capture array of its own frame, get the handler and the
\* captures they get when run alone; and no step of a call changes a node
\* (label, children, mask, handlers) or the method list of the table.
C13_ConcurrentReads ==
    /\ [](\A p \in Procs : procs[p].pc = "done" => procs[p].out = Alone(p))
    /\ [][ret = "table" => UNCHANGED <<nodes, methods, methodMask>>]_vars

\* a call has been handed its capture while another call, on another path,
\* is in the middle of a label with a capture of its own written
C13_Witness ==
    \E p, q \in Procs :
        /\ procs[p].pc = "done" /\ procs[p].op = "ServeHTTP"
        /\ procs[p].out.handler # Nil /\ procs[p].out.n = 1
        /\ procs[q].pc = "label" /\ procs[q].varIdx = 1
        /\ procs[q].vars[1] # procs[p].out.variables[1]

\* C14: New is deterministic: run on the same list (the table built from the
\* routes before routes[idx] is the same in every run), the iteration on
\* routes[idx] returns one and the same error, type, index and message, or
\* none; and a request made again on the table gets the handler and the
\* captures it got.
C14_Deterministic ==
    /\ (ret = "running" /\ idx < Len(routes))
          => \A e1, e2 \in newErrors(nodes, methods, idx, routes[idx + 1]) : e1 = e2
    /\ call.op = "ServeHTTP"
          => LET again == serveHTTP(nodes, methods, methodMask, call.Method, call.Path)
             IN call.handler = again.handler /\ call.variables = again.variables
    /\ call.op = "Vars"
          => LET again == tableVars(nodes, methods, methodMask, call.Method, call.Path)
             IN call.found = again.found /\ call.variables = again.variables

\* C15: when a captured substring cannot be converted to the type of the
\* handler's parameter (text that is no base-16 integer for a funcH1), the
\* request ends with a 400 response, the user's handler is not called, and
\* the dispatch does not panic.
C15_BadRequest ==
    (call.op = "ServeHTTP" /\ PlainRequest(call) /\ call.handler # Nil
        /\ routes[call.handler].Handler.sig = "funcH1"
        /\ ~ParseIntOk(call.variables[1]))
    => /\ call.served.status = 400
       /\ ~call.served.called
       /\ ~call.served.fault

\* the normalized path of route k
Norm(k) == regexpNormalize(routes[k].Path)

\* the length of the prefix at which the route New stopped at left the paths
\* registered before it: the node checkConflict looked at
ConflictAt ==
    LET ds == {FirstDiff(Norm(err.Idx + 1), Norm(i)) : i \in 1..err.Idx}
    IN CHOOSE d \in ds : \A e \in ds : e <= d

\* route k, registered or the one New stopped at, lies below that node in
\* the child of first byte c
Below(k, c) ==
    /\ Len(Norm(k)) > ConflictAt
    /\ Slice(Norm(k), 0, ConflictAt) = Slice(Norm(err.Idx + 1), 0, ConflictAt)
    /\ Norm(k)[ConflictAt + 1] = c

MethodsBelow(c) == {routes[k].Method : k \in {j \in 1..(err.Idx + 1) : Below(j, c)}}

\* the literal siblings whose methods meet those of the wildcard child
Meeting == {c \in {"a", "b", "/"} : MethodsBelow(c) \cap MethodsBelow("*") # {}}

\* the (method, path) pairs in conflict
Conflicting ==
    {<<routes[k].Method, Norm(k)>> : k \in
        {j \in 1..(err.Idx + 1) :
            \/ Below(j, "*") /\ \E c \in Meeting : routes[j].Method \in MethodsBelow(c)
            \/ \E c \in Meeting : Below(j, c) /\ routes[j].Method \in MethodsBelow("*")}}

\* C16: when New fails with ErrTypeConflictingRoutes, the error lists every
\* registered (method, path) pair that lies under the wildcard child or under
\* any literal sibling whose methods meet it, for each method they share: no
\* conflicting route is left out.
C16_ConflictsComplete ==
    (ret = "error" /\ err.Type = ErrTypeConflictingRoutes)
    => \A c \in Conflicting : \E i \in 1..Len(err.Msg.conflicts) : err.Msg.conflicts[i] = c

\* the events of entering the middlewares of names ns in order, handler h,
\* and leaving them in the reverse order
RECURSIVE Onion(_, _)
Onion(ns, h) ==
    IF ns = <<>> THEN <<<<"handler", h>>>>
    ELSE <<<<"enter", Head(ns)>>>> \o Onion(Tail(ns), h) \o <<<<"exit", Head(ns)>>>>

\* the names of the middlewares handed to Compose, and of route k's own
ComposedNames == [i \in 1..Len(helper.mws) |-> helper.mws[i].name]

OwnNames(k) ==
    IF helper.routes[k].Middleware = NilMw THEN <<>> ELSE <<helper.routes[k].Middleware.name>>

\* C17: a request to a route returned by Wrap(mw, routes) enters mw, then the
\* middleware the route already had, then the handler, and unwinds in the
\* reverse order; Compose(a, b, ...) enters its middlewares left to right
\* and leaves them right to left.
C17_MiddlewareOrder ==
    /\ helper.op = "handled" => helper.trace = Onion(ComposedNames, 0)
    /\ helper.op = "served"
          => helper.trace = Onion(ComposedNames \o OwnNames(helper.k), helper.k)

\* a route with its own middleware m1, wrapped by Compose(a, b), has served
C17_Witness ==
    /\ helper.op = "served"
    /\ helper.routes[helper.k].Middleware = UserMw("m1")
    /\ helper.mws = <<UserMw("a"), UserMw("b")>>
    /\ Len(helper.trace) = 7

\* input route j is the first with its Path, and no route of the input has
\* that Path under MethodAny: a default route is due after it
DefaultDue(j) ==
    /\ \A i \in 1..(j - 1) : helper.routes[i].Path # helper.routes[j].Path
    /\ \A i \in 1..Len(helper.routes) :
          helper.routes[i].Path = helper.routes[j].Path => helper.routes[i].Method # MethodAny

\* where input route j stands in the output: after the routes before it and
\* the default routes due after them
OutPos(j) == j + Cardinality({i \in 1..(j - 1) : DefaultDue(i)})

\* C18: DefaultMethod(h, routes) returns the input routes in their order
\* and, for each Path that no MethodAny route of the input has, exactly one
\* route {MethodAny, Path, h} right after the first route with that Path; a
\* Path with a MethodAny route gets none, and that route is unchanged.
C18_DefaultMethod ==
    helper.op = "defaulted"
    => /\ Len(helper.out)
            = Len(helper.routes) + Cardinality({j \in 1..Len(helper.routes) : DefaultDue(j)})
       /\ \A j \in 1..Len(helper.routes) :
             /\ helper.out[OutPos(j)] = helper.routes[j]
             /\ DefaultDue(j)
                  => helper.out[OutPos(j) + 1]
                       = RouteMw(MethodAny, helper.routes[j].Path, DefaultHandler, NilMw)

\* of three routes, the first two share a path and get one default route
\* after the first, and the third is a MethodAny route that gets none
C18_Witness ==
    /\ helper.op = "defaulted"
    /\ Len(helper.routes) = 3 /\ Len(helper.out) = 4
    /\ helper.routes[1].Path = helper.routes[2].Path
    /\ helper.routes[1].Method = "GET"
    /\ helper.routes[3].Method = MethodAny
    /\ helper.out[2].Method = MethodAny /\ helper.out[2].Handler = DefaultHandler

\* C19: every call of ServeHTTP or Vars on a built table comes to its end:
\* an iteration of the inner loop of matchPath advances the label index or
\* returns, and the number of iterations (those over the bytes of a
\* wildcard included) is at most the length of the path plus the number of
\* its segments, whatever the routes of the table.
C19_Terminates ==
    /\ [](\A p \in Procs : procs[p].iters <= Len(procs[p].Path) + Slashes(procs[p].Path))
    /\ [][\A p \in Procs :
            (procs[p].pc = "label" /\ procs'[p] # procs[p])
            => \/ procs'[p].pc = "done"
               \/ /\ procs'[p].pathIdx >= procs[p].pathIdx
                  /\ procs'[p].lblIdx > procs[p].lblIdx]_vars
    /\ \A p \in Procs : (procs[p].pc \in {"node", "label"}) ~> (procs[p].pc = "done")

\* a call has come to its end after five iterations on a path of four bytes
C19_Witness ==
    \E p \in Procs :
        /\ procs[p].pc = "done" /\ procs[p].iters = 5
        /\ Len(procs[p].Path) = 4

\* the nodes at which path ends exactly when the labels of the edges are
\* followed from node n, pathIdx bytes of path being already behind
RECURSIVE Located(_, _, _)
Located(n, path, pathIdx) ==
    IF pathIdx = Len(path) THEN {n}
    ELSE UNION { LET label == nodes[nodes[n].children[j]].label
                 IN IF /\ pathIdx + Len(label) <= Len(path)
                       /\ Slice(path, pathIdx, pathIdx + Len(label)) = label
                    THEN Located(nodes[n].children[j], path, pathIdx + Len(label))
                    ELSE {}
                 : j \in 1..Len(nodes[n].children) }

\* the places of the trie, node and position in its handlers, that hold
\* the handler of route k
Holders(k) ==
    UNION { {<<n, j>> : j \in {i \in 1..Len(nodes[n].hndlrs) : nodes[n].hndlrs[i].Handler = k}}
            : n \in 1..Len(nodes) }

\* C20: while New has met no error, every route inserted so far is stored
\* where it belongs: the labels followed from the root along its normalized
\* path end at exactly one node, at the end of a label; the handlers of that
\* node for the route's method are the route's handler alone; and no other
\* place of the trie holds it.
C20_RoutesStayStored ==
    (ret # "error" /\ call = NoCall)
    => \A k \in 1..idx :
          \E n \in 1..Len(nodes) :
              /\ Located(Root, Norm(k), 0) = {n}
              /\ HandlersFor(n, routes[k].Method) = {k}
              /\ \A h \in Holders(k) : h[1] = n
              /\ Cardinality(Holders(k)) = 1

\* three routes are stored and the first one has been through a split in
\* the middle of its label and a split at the end of a path: its node hangs
\* two nodes below the root and shares its first edge with another route
C20_Witness ==
    /\ ret = "table" /\ call = NoCall /\ idx = 3
    /\ \E b \in 2..Len(nodes), n \in 2..Len(nodes) :
          /\ b \in {nodes[Root].children[j] : j \in 1..Len(nodes[Root].children)}
          /\ Holders(3) = {<<b, 1>>}
          /\ \E m \in 2..Len(nodes) :
                /\ m \in {nodes[b].children[j] : j \in 1..Len(nodes[b].children)}
                /\ nodes[m].hndlrs = <<>>
                /\ n \in {nodes[m].children[j] : j \in 1..Len(nodes[m].children)}
                /\ Holders(1) = {<<n, 1>>}

\* the children of node n, as a set
ChildrenOf(n) == {nodes[n].children[j] : j \in 1..Len(nodes[n].children)}

\* C21: after every insert, the splits of an edge included, the children of
\* each node have pairwise distinct first label bytes (and no child is
\* listed twice), and every node other than the root has a non-empty label.
C21_DistinctFirstBytes ==
    call = NoCall
    => \A n \in 1..Len(nodes) :
          /\ \A i, j \in 1..Len(nodes[n].children) :
                i # j => /\ nodes[n].children[i] # nodes[n].children[j]
                         /\ nodes[nodes[n].children[i]].label[1] #
                            nodes[nodes[n].children[j]].label[1]
          /\ n # Root => nodes[n].label # <<>>

\* an insert has split an edge in the middle and a later one has split an
\* edge at the end of its path: a node without handlers has two children
\* and hangs below a node made by a later route
C21_Witness ==
    /\ call = NoCall /\ idx = 3
    /\ \E b \in 2..Len(nodes), m \in 2..Len(nodes) :
          /\ b \in ChildrenOf(Root) /\ m \in ChildrenOf(b)
          /\ Holders(3) = {<<b, 1>>}
          /\ nodes[m].hndlrs = <<>>
          /\ Cardinality(ChildrenOf(m)) = 2

\* the bits of the methods node n has handlers for
OwnBits(n) ==
    UNION {methodFlagOf(methods, nodes[n].hndlrs[j].Method) : j \in 1..Len(nodes[n].hndlrs)}

\* the nodes strictly above node n
RECURSIVE Ancestors(_)
Ancestors(n) ==
    LET ps == {p \in 1..Len(nodes) : n \in ChildrenOf(p)}
    IN ps \cup UNION {Ancestors(p) : p \in ps}

\* C22: in every table New returns, the mask of each node is the union of
\* the bits of the methods it has handlers for and of the masks of its
\* children (hence of all its descendants), and the mask of every ancestor
\* of a node that holds a route's handler has the bit of the route's method.
C22_MaskIsUnion ==
    (ret = "table" /\ call = NoCall)
    => /\ \A n \in 1..Len(nodes) :
             nodes[n].methods = OwnBits(n) \cup UNION {nodes[c].methods : c \in ChildrenOf(n)}
       /\ \A k \in 1..idx : \A h \in Holders(k) : \A a \in Ancestors(h[1]) \cup {h[1]} :
             methodFlagOf(methods, routes[k].Method) \subseteq nodes[a].methods
       /\ \A k \in 1..idx : methodFlagOf(methods, routes[k].Method) # {}

\* a table of three routes of two methods at least, with a branch node that
\* has no handler of its own and owes the two bits of its mask to its
\* children
C22_Witness ==
    /\ ret = "table" /\ call = NoCall /\ idx = 3
    /\ \E n \in 2..Len(nodes) :
          /\ nodes[n].hndlrs = <<>>
          /\ Cardinality(nodes[n].methods) = 2
          /\ \A c \in ChildrenOf(n) : Cardinality(nodes[c].methods) = 1

\* the orders a list of n routes can be given in
Orders(n) == {f \in [1..n -> 1..n] : \A i, j \in 1..n : f[i] = f[j] => i = j}

\* no two routes of the list have the same method and normalized path
NoDuplicates ==
    \A i, j \in 1..Len(routes) :
        (i # j) => ~(routes[i].Method = routes[j].Method /\ Norm(i) = Norm(j))

\* C23: for a list of routes that are valid one by one and hold no
\* duplicate (method, normalized path): New on the list in any other order
\* succeeds when New succeeded and fails with ErrTypeConflictingRoutes when
\* it failed; and when it succeeds, every request is routed to the same
\* route (or to Table.Default) by both tables.
C23_OrderIndependent ==
    (ret # "running" /\ call = NoCall /\ ValidUpTo(Len(routes)) /\ NoDuplicates)
    => \A f \in Orders(Len(routes)) :
          LET other == New([j \in 1..Len(routes) |-> routes[f[j]]])
          IN /\ ret = "error" => other.Type = err.Type
             /\ ret = "table" =>
                   /\ other.Type = Nil
                   /\ \A m \in Methods, p \in ReqPaths :
                         LET a == serveHTTP(nodes, methods, methodMask, m, p)
                             b == serveHTTP(other.nodes, other.methods, other.methodMask, m, p)
                         IN /\ a.panic = b.panic
                            /\ a.handler = (IF b.handler = Nil THEN Nil ELSE f[b.handler])

\* C24: a request that matches a route registered with its own method is
\* served by a route of that method, also where a MethodAny route of
\* another pattern covers the path: ServeHTTP takes a MethodAny handler or
\* Table.Default only when no route of the request's method matches.
C24_ExplicitMethodFirst ==
    (call.op = "ServeHTTP" /\ PlainRequest(call)
        /\ MatchingRoutes(call.Method, call.Path, FALSE) # {})
    => /\ call.handler # Nil
       /\ routes[call.handler].Method = call.Method

\* C25: on every built table, for every request method and path (the empty
\* path and paths with '*' included), matchPath reads no byte past the end
\* of the path or of a label and writes no capture at index 8 or above (the
\* call does not panic), and ServeHTTP ends by invoking one route handler
\* or Table.Default.
C25_NoOutOfRange ==
    /\ call.op \in {"ServeHTTP", "Vars"} => ~call.panic
    /\ call.op = "ServeHTTP" => call.handler \in {Nil} \cup (1..idx)

\* the number of bytes c in s
RECURSIVE Count(_, _)
Count(s, c) == IF s = <<>> THEN 0 ELSE (IF Head(s) = c THEN 1 ELSE 0) + Count(Tail(s), c)

\* path s, read segment by segment: no segment holds a '*', and a ':' is
\* the first byte of its segment
RECURSIVE SegmentsValid(_)
SegmentsValid(s) ==
    \/ s = <<>>
    \/ /\ Head(s) = "/"
       /\ LET seg == Segment(Tail(s))
          IN /\ ~Contains(seg, "*")
             /\ \A i \in 2..Len(seg) : seg[i] # ":"
             /\ SegmentsValid(SubSeq(Tail(s), Len(seg) + 1, Len(Tail(s))))

BeforeInsert ==
    {ErrTypeMethodEmpty, ErrTypeNilHandler, ErrTypePathEmpty, ErrTypeNoInitialSlash,
     ErrTypeInvalidSegment, ErrTypeOutOfRange, ErrTypeConversionFailure,
     ErrTypeParamCountMismatch}

\* C27: the iteration of New that returns one of the errors found in a
\* route alone leaves the trie as the route before left it, and an iteration
\* that returns an error after it changed the trie returns
\* ErrTypeDuplicateHandler or ErrTypeConflictingRoutes.
C27_RejectedUntouched ==
    [][(ret = "running" /\ ret' = "error")
         => /\ err'.Type \in BeforeInsert => nodes' = nodes
            /\ nodes' # nodes => err'.Type \in {ErrTypeDuplicateHandler, ErrTypeConflictingRoutes}
            /\ err'.Type \in BeforeInsert
                                \cup {ErrTypeDuplicateHandler, ErrTypeConflictingRoutes}]_vars

\* New has built a trie of one route and has rejected the second for the
\* parameter count of its handler, the last check before insert: the trie
\* is the one New builds from the first route alone
C27_Witness ==
    /\ ret = "error" /\ call = NoCall /\ idx = 1
    /\ err.Type = ErrTypeParamCountMismatch
    /\ Len(nodes) > 1
    /\ nodes = New(SubSeq(routes, 1, idx)).nodes

\* C28: a request whose method is the MethodAny token "~" reaches no route
\* handler, also where a MethodAny route matches its path: ServeHTTP invokes
\* Table.Default, and Vars returns, reporting that nothing was found.
C28_AnyTokenRequest ==
    /\ (call.op = "ServeHTTP" /\ call.Method = MethodAny)
          => (call.handler = Nil /\ ~call.panic)
    /\ (call.op = "Vars" /\ call.Method = MethodAny)
          => (~call.found /\ ~call.panic)

\* C29: a wildcard stands for a non-empty run of bytes other than '/': the
\* route ServeHTTP invokes matches the request path with every wildcard
\* non-empty, so that a path with an empty segment in the place of a
\* wildcard, in the middle or at the end, is not matched, and no capture
\* handed to a handler or returned by Vars is empty.
C29_NonEmptyCaptures ==
    /\ (call.op = "ServeHTTP" /\ PlainRequest(call) /\ call.handler # Nil)
          => /\ PatternMatches(routes[call.handler].Path, call.Path, FALSE)
             /\ \A i \in 1..call.n : call.variables[i] # <<>>
    /\ (call.op = "Vars" /\ PlainRequest(call) /\ call.found)
          => \A i \in 1..call.n : call.variables[i] # <<>>

\* C30: when New accepts a list of routes it accepts the list DefaultMethod
\* makes of it with a handler of no parameter: the MethodAny routes added
\* bring no ErrTypeDuplicateHandler and no ErrTypeConflictingRoutes.
C30_DefaultMethodAccepted ==
    (ret = "table" /\ call = NoCall)
    => New(DefaultMethod(DefaultHandler, routes)).Type = Nil

====
